---------------------------- MODULE Spec2Model ----------------------------
(***************************************************************************)
(* Model of the per-session streaming pipeline of the sales training agent *)
(* backend: app/main.py (websocket_endpoint, on_transcript_update,         *)
(* audio_receiver), app/services/stt_service.py, llm_service.py,           *)
(* tts_service.py and app/models/schemas.py.                               *)
(*                                                                         *)
(* Strings are sequences of atoms.  An atom is one structural character    *)
(* ("{", "}", ",", ":", the double quote) or an indivisible run of other   *)
(* characters ("customer_utterance", "hi", ...); find/rfind/slicing only   *)
(* ever cut at braces, so the abstraction is exact for them.               *)
(***************************************************************************)
EXTENDS Naturals, Integers, Sequences, FiniteSets, TLC

VARIABLES
    \* ---- session state (app/main.py) ----
    mainpc,          \* position of websocket_endpoint: gather / finally / closed
    rcvpc,           \* position of audio_receiver task
    sttpc,           \* position of the stt task (process_audio_stream + callback)
    sttEnd,          \* how the stt task left its loop ("none" while it runs)
    stoppedAt,       \* the await the stt task was at when it stopped
    genpc,           \* position of _request_generator (feed side)
    genEnd,          \* how the request generator ended ("none" while it runs)
    client,          \* "connected" / "disconnected"
    clientSent,      \* chunks the client sent, in send order
    audio_queue,     \* asyncio.Queue contents (chunks and the None sentinel)
    requests,        \* frames yielded to the transcription backend
    upstream,        \* number of responses the backend produced so far
    response,        \* the response the 'async for' of the stt task holds
    delivered,       \* transcript events handed to on_transcript_update
    cur,             \* (transcript, is_final) of the running callback
    prompt,          \* full_user_prompt rendered for the running callback
    raw_text,        \* what the generation backend did for the running callback
    llm_response,    \* local llm_response of on_transcript_update
    tts_result,      \* what the synthesis backend did for the running callback
    audio_bytes,     \* local audio_bytes of on_transcript_update
    outbound,        \* messages sent with websocket.send_json, in order
    conversation_history,
    llm_calls,       \* generate_response calls made: utterance, prompt, result
    tts_calls,       \* synthesize_speech calls made: the text passed
    \* ---- response generator exercised on its own (llm_service.py) ----
    g_in,            \* outcome of self.client.chat: a string or Raised
    g_pc,            \* "call" before generate_response ran, "ret" after
    g_cleaned,       \* cleaned_json_string (NoValue when not computed)
    g_out,           \* returned LLMResponse
    g_path           \* "parsed" (return at line 116) / "fallback" (line 120)

sessionVars == <<mainpc, rcvpc, sttpc, sttEnd, stoppedAt, genpc, genEnd, client,
                 clientSent, audio_queue, requests, upstream, delivered, cur,
                 prompt, raw_text,
                 llm_response, tts_result, audio_bytes, outbound,
                 conversation_history, llm_calls, tts_calls, response>>

callVars == <<llm_calls, tts_calls>>

genVars == <<g_in, g_pc, g_cleaned, g_out, g_path>>

vars == <<sessionVars, genVars>>

-----------------------------------------------------------------------------
(* Bounds                                                                  *)

MaxChunks == 2

MaxResponses == 2

MaxNoise == 2

MaxStrLen == 5

-----------------------------------------------------------------------------
(* Atoms and values                                                        *)

LB == "{"

RB == "}"

QT == "\""

COMMA == ","

COLON == ":"

NoValue == <<"<unset>">>

Raised == <<"<raised>">>

\* the end-of-stream sentinel on the audio queue; chunks are 1, 2, ...
None == 0

Emotion == {"curious", "skeptical", "interested", "frustrated", "impressed", "neutral"}

ApologyText == <<"I'm sorry, I'm having a little trouble right now. Can you repeat that?">>

Fallback == [customer_utterance |-> ApologyText, customer_emotion |-> "frustrated"]

NoEvent == [text |-> <<0, 0>>, is_final |-> FALSE]

-----------------------------------------------------------------------------
(* str.find / str.rfind / slicing, as Python computes them (0-based, -1)   *)

RECURSIVE FindFrom(_, _, _)
FindFrom(s, c, i) ==
    IF i > Len(s) THEN -1
    ELSE IF s[i] = c THEN i - 1
    ELSE FindFrom(s, c, i + 1)

find(s, c) == FindFrom(s, c, 1)

RECURSIVE RFindFrom(_, _, _)
RFindFrom(s, c, i) ==
    IF i < 1 THEN -1
    ELSE IF s[i] = c THEN i - 1
    ELSE RFindFrom(s, c, i - 1)

rfind(s, c) == RFindFrom(s, c, Len(s))

\* s[a:b] for non-negative a, b
Slice(s, a, b) ==
    LET hi == IF b > Len(s) THEN Len(s) ELSE b
    IN  IF a >= hi THEN <<>> ELSE SubSeq(s, a + 1, hi)

\* variant: the object is taken to end at the first closing brace
clean_json_string_first_close(json_string) ==
    LET start_index == find(json_string, LB)
        end_index   == find(json_string, RB)
    IN  IF start_index = -1 \/ end_index = -1
        THEN <<>>
        ELSE Slice(json_string, start_index, end_index + 1)

_clean_json_string(json_string) ==
    LET start_index == find(json_string, LB)
        end_index   == rfind(json_string, RB)
    IN  IF start_index = -1 \/ end_index = -1
        THEN <<>>
        ELSE Slice(json_string, start_index, end_index + 1)

-----------------------------------------------------------------------------
(* LLMResponse.parse_raw: JSON decoding followed by schema validation      *)

Punct == {LB, RB, COMMA, COLON}

BadTok == <<"bad", <<>>>>

\* tokens are <<kind, content>>: a punctuation atom, or "str" with the
\* atoms between two quotes; anything else is not JSON
RECURSIVE LexFrom(_, _)
LexFrom(s, i) ==
    IF i > Len(s) THEN <<>>
    ELSE IF s[i] \in Punct THEN <<<<s[i], <<>>>>>> \o LexFrom(s, i + 1)
    ELSE IF s[i] = QT THEN
        LET j == FindFrom(s, QT, i + 1)     \* 0-based index of closing quote
        IN  IF j = -1 THEN <<BadTok>>
            ELSE <<<<"str", SubSeq(s, i + 1, j)>>>> \o LexFrom(s, j + 2)
    ELSE <<BadTok>>

ParseFail == [ok |-> FALSE, next |-> 0, val |-> <<>>]

RECURSIVE ParseObj(_, _)
RECURSIVE ParseMembers(_, _, _)
RECURSIVE ParseValue(_, _)

ParseValue(t, i) ==
    IF i > Len(t) THEN ParseFail
    ELSE IF t[i][1] = "str" THEN [ok |-> TRUE, next |-> i + 1, val |-> t[i]]
    ELSE IF t[i][1] = LB THEN
        LET o == ParseObj(t, i)
        IN  IF o.ok THEN [ok |-> TRUE, next |-> o.next, val |-> <<"obj", <<>>>>]
            ELSE ParseFail
    ELSE ParseFail

ParseMembers(t, i, acc) ==
    IF i + 2 > Len(t) THEN ParseFail
    ELSE IF t[i][1] # "str" \/ t[i + 1][1] # COLON THEN ParseFail
    ELSE LET v == ParseValue(t, i + 2)
         IN  IF ~v.ok \/ v.next > Len(t) THEN ParseFail
             ELSE LET acc2 == Append(acc, <<t[i][2], v.val>>)
                  IN  IF t[v.next][1] = RB
                      THEN [ok |-> TRUE, next |-> v.next + 1, val |-> acc2]
                      ELSE IF t[v.next][1] = COMMA
                      THEN ParseMembers(t, v.next + 1, acc2)
                      ELSE ParseFail

ParseObj(t, i) ==
    IF i > Len(t) \/ t[i][1] # LB THEN ParseFail
    ELSE IF i + 1 <= Len(t) /\ t[i + 1][1] = RB
    THEN [ok |-> TRUE, next |-> i + 2, val |-> <<>>]
    ELSE ParseMembers(t, i + 1, <<>>)

\* json.loads restricted to objects: the members as <<key, value>> pairs
json_loads(s) ==
    LET t == LexFrom(s, 1)
    IN  IF \E k \in 1..Len(t) : t[k] = BadTok THEN ParseFail
        ELSE LET o == ParseObj(t, 1)
             IN  IF o.ok /\ o.next = Len(t) + 1 THEN o ELSE ParseFail

HasKey(pairs, key) == \E k \in 1..Len(pairs) : pairs[k][1] = key

\* a repeated key keeps its last value, as a Python dict does
Lookup(pairs, key) ==
    LET ks == {k \in 1..Len(pairs) : pairs[k][1] = key}
        last == CHOOSE k \in ks : \A m \in ks : m <= k
    IN  pairs[last][2]

KeyUtterance == <<"customer_utterance">>

KeyEmotion == <<"customer_emotion">>

\* variant: customer_emotion declared as a plain str
IsEmotionAnyStr(v) == v[1] = "str"

\* the Emotion literal: a string value that is exactly one of the six names
IsEmotion(v) == v[1] = "str" /\ Len(v[2]) = 1 /\ v[2][1] \in Emotion

LLMResponse(customer_utterance, customer_emotion) ==
    [customer_utterance |-> customer_utterance, customer_emotion |-> customer_emotion]

ValidationError == [ok |-> FALSE, val |-> Fallback]

parse_raw(s) ==
    LET d == json_loads(s)
    IN  IF ~d.ok THEN ValidationError
        ELSE IF ~HasKey(d.val, KeyUtterance) \/ ~HasKey(d.val, KeyEmotion)
        THEN ValidationError
        ELSE LET u == Lookup(d.val, KeyUtterance)
                 e == Lookup(d.val, KeyEmotion)
             IN  IF u[1] # "str" \/ ~IsEmotion(e) THEN ValidationError
                 ELSE [ok |-> TRUE, val |-> LLMResponse(u[2], e[2][1])]

GenFallback == [path |-> "fallback", cleaned |-> NoValue, resp |-> Fallback]

\* generate_response, given what self.client.chat did (a string or Raised)
generate_response(chat) ==
    IF chat = Raised THEN GenFallback
    ELSE IF chat = <<>> THEN GenFallback
    ELSE LET cleaned_json_string == _clean_json_string(chat)
         IN  IF cleaned_json_string = <<>>
             THEN [GenFallback EXCEPT !.cleaned = cleaned_json_string]
             ELSE LET p == parse_raw(cleaned_json_string)
                  IN  IF p.ok
                      THEN [path |-> "parsed", cleaned |-> cleaned_json_string,
                            resp |-> p.val]
                      ELSE [GenFallback EXCEPT !.cleaned = cleaned_json_string]


-----------------------------------------------------------------------------
(* Generation-backend outputs the response generator is exercised on       *)

RECURSIVE StringsOver(_, _)
StringsOver(A, n) ==
    IF n = 0 THEN {<<>>}
    ELSE LET shorter == StringsOver(A, n - 1)
         IN  shorter \cup {Append(t, a) : t \in {u \in shorter : Len(u) = n - 1}, a \in A}

BraceAlphabet == {LB, RB, "a"}

BraceStrings == StringsOver(BraceAlphabet, MaxStrLen)

Noise == StringsOver(BraceAlphabet, MaxNoise)

PlainNoise == StringsOver({"a"}, MaxNoise)

Str(content) == <<QT>> \o content \o <<QT>>

Member(key, value) == Str(key) \o <<COLON>> \o value

Obj2(m1, m2) == <<LB>> \o m1 \o <<COMMA>> \o m2 \o <<RB>>

Obj1(m1) == <<LB>> \o m1 \o <<RB>>

Utterances == {<<"hi">>, <<>>, <<"a", RB>>, <<LB, "b">>}

MU(S) == Member(KeyUtterance, Str(S))

ME(E) == Member(KeyEmotion, Str(<<E>>))

\* {"customer_utterance": S, "customer_emotion": E} and the same object
\* with its members in the other order
ValidObject(S, E) == Obj2(MU(S), ME(E))

ValidObjectRev(S, E) == Obj2(ME(E), MU(S))

ValidObjects == {ValidObject(S, E) : S \in Utterances, E \in Emotion}
                \cup {ValidObjectRev(S, E) : S \in Utterances, E \in Emotion}

BadEmotions == {"angry", "Curious", ""}

BadEmotionObjects ==
    {ValidObject(S, E) : S \in Utterances, E \in BadEmotions}
    \cup {ValidObjectRev(S, E) : S \in Utterances, E \in BadEmotions}
    \cup {Obj2(MU(<<"hi">>), Member(KeyEmotion, Obj1(ME("curious"))))}

MissingFieldObjects ==
    {Obj1(MU(S)) : S \in Utterances}
    \cup {Obj1(ME(E)) : E \in Emotion}
    \cup {<<LB, RB>>, Obj1(Member(<<"other">>, Str(<<"hi">>))),
          Obj2(MU(<<"hi">>), Member(<<"emotion">>, Str(<<"curious">>)))}

\* braces present, but not JSON: trailing comma, missing colon, unquoted key,
\* unterminated string, bare word, missing comma
InvalidJsonObjects ==
    {<<LB>> \o MU(<<"hi">>) \o <<COMMA>> \o ME("curious") \o <<COMMA, RB>>,
     <<LB>> \o Str(KeyUtterance) \o Str(<<"hi">>) \o <<COMMA>> \o ME("curious") \o <<RB>>,
     <<LB, "customer_utterance", COLON>> \o Str(<<"hi">>) \o <<COMMA>> \o ME("curious") \o <<RB>>,
     <<LB>> \o Str(KeyUtterance) \o <<COLON, QT, "hi", COMMA>> \o ME("curious") \o <<RB>>,
     <<LB, "a", RB>>,
     <<LB>> \o MU(<<"hi">>) \o ME("curious") \o <<RB>>,
     <<RB, "a", LB>>}

Wrap(pre, body, post) == pre \o body \o post

\* a valid object between noise of which at least one side holds a stray brace
BraceWrappedObjects ==
    {Wrap(pre, ValidObject(<<"hi">>, "curious"), post) :
        pre \in Noise, post \in Noise}
    \ {Wrap(pre, ValidObject(<<"hi">>, "curious"), post) :
        pre \in PlainNoise, post \in PlainNoise}

NoOpenBrace == {s \in BraceStrings : \A k \in 1..Len(s) : s[k] # LB} \ {<<>>}

NoCloseBrace == {s \in BraceStrings : \A k \in 1..Len(s) : s[k] # RB} \ {<<>>}

PlainWrapped(bodies) ==
    {Wrap(pre, b, post) : pre \in PlainNoise, b \in bodies, post \in PlainNoise}

ChatOutcomes ==
    {Raised} \cup BraceStrings \cup PlainWrapped(ValidObjects)
    \cup PlainWrapped(BadEmotionObjects) \cup PlainWrapped(MissingFieldObjects)
    \cup PlainWrapped(InvalidJsonObjects) \cup BraceWrappedObjects

-----------------------------------------------------------------------------
(* The response generator on its own                                       *)

SessionInit ==
    /\ mainpc = "gather"
    /\ rcvpc = "recv"
    /\ sttpc = "open"
    /\ sttEnd = "none"
    /\ stoppedAt = "none"
    /\ genpc = "start"
    /\ genEnd = "none"
    /\ client = "connected"
    /\ clientSent = <<>>
    /\ audio_queue = <<>>
    /\ requests = <<>>
    /\ upstream = 0
    /\ response = <<>>
    /\ delivered = <<>>
    /\ cur = NoEvent
    /\ prompt = <<>>
    /\ raw_text = NoValue
    /\ llm_response = Fallback
    /\ tts_result = NoValue
    /\ audio_bytes = NoValue
    /\ outbound = <<>>
    /\ conversation_history = <<>>
    /\ llm_calls = <<>>
    /\ tts_calls = <<>>

GenIdle ==
    /\ g_in = Raised
    /\ g_pc = "idle"
    /\ g_cleaned = NoValue
    /\ g_out = Fallback
    /\ g_path = "none"

InitGen ==
    /\ SessionInit
    /\ g_in \in ChatOutcomes
    /\ g_pc = "call"
    /\ g_cleaned = NoValue
    /\ g_out = Fallback
    /\ g_path = "none"

\* llm_service.generate_response(...) with self.client.chat behaving as g_in
GenCall ==
    /\ g_pc = "call"
    /\ LET r == generate_response(g_in)
       IN  /\ g_cleaned' = r.cleaned
           /\ g_out' = r.resp
           /\ g_path' = r.path
    /\ g_pc' = "ret"
    /\ UNCHANGED <<g_in, sessionVars>>

\* llm_service._clean_json_string(g_in) called directly
CleanCall ==
    /\ g_pc = "call"
    /\ g_in # Raised
    /\ g_cleaned' = _clean_json_string(g_in)
    /\ g_pc' = "cleaned"
    /\ UNCHANGED <<g_in, g_out, g_path, sessionVars>>

NextGen == GenCall \/ CleanCall

SpecGen == InitGen /\ [][NextGen]_vars


-----------------------------------------------------------------------------
(* The session: websocket_endpoint and its two tasks                       *)

\* the awaits of process_audio_stream and of the callback it runs
SttRunning == {"open", "read", "send_transcript", "generate", "synthesize", "send_audio"}

\* the streaming call exists from streaming_recognize until the task stops
StreamAlive == sttpc \in SttRunning \ {"open"}

\* one upstream result: no alternative, or one alternative that is interim
\* or final; the transcript of result j of response k is <<k, j>>
ResultKinds == {"noalt", "interim", "final"}

ResponseShapes ==
    {<<>>} \cup {<<a>> : a \in ResultKinds}
    \cup {<<"interim", "final">>}

\* what the generation backend may do during a session
SessionChatOutcomes ==
    {Raised, <<LB, "a", RB>>, ValidObject(<<"hi">>, "curious")}

\* what the synthesis backend may do: raise, empty audio_content, audio
SynthOutcomes == {Raised, <<>>, <<"mp3">>}

\* StreamingRecognizeRequest(streaming_config=...) / (audio_content=chunk)
ConfigRequest == [kind |-> "config", audio_content |-> None]

AudioRequest(chunk) == [kind |-> "audio", audio_content |-> chunk]

TranscriptMsg(transcript, is_final) ==
    [type |-> "transcript", data |-> [text |-> transcript, is_final |-> is_final]]

b64encode(bytes) == <<"b64">> \o bytes

AudioMsg(bytes) == [type |-> "audio", data |-> [b64 |-> b64encode(bytes)]]

ConversationTurn(user_utterance, ai_response) ==
    [user_utterance |-> user_utterance, ai_response |-> ai_response]

RECURSIVE FormatHistory(_)
FormatHistory(history) ==
    IF history = <<>> THEN <<>>
    ELSE <<[trainee |-> Head(history).user_utterance],
           [customer |-> Head(history).ai_response]>>
         \o FormatHistory(Tail(history))

\* variant: the prompt carries the new utterance only
format_prompt_without_history(user_utterance, history) ==
    <<[trainee |-> user_utterance]>>

_format_prompt_with_history(user_utterance, history) ==
    FormatHistory(history) \o <<[trainee |-> user_utterance]>>

Init ==
    /\ SessionInit
    /\ GenIdle

\* ---- client and audio_receiver (main.py 87-97) ----

\* the client goes away; the receiver has not seen it yet
ClientDrop ==
    /\ client = "connected"
    /\ client' = "lost"
    /\ UNCHANGED <<mainpc, rcvpc, sttpc, sttEnd, stoppedAt, genpc, genEnd,
                   clientSent, audio_queue, requests, upstream, delivered, cur,
                   prompt, raw_text, llm_response, tts_result, audio_bytes,
                   outbound, conversation_history, response, genVars, callVars>>

\* receive_bytes returns the client's next chunk, which is put on the queue
ReceiveChunk ==
    /\ rcvpc = "recv"
    /\ client = "connected"
    /\ Len(clientSent) < MaxChunks
    /\ LET message == Len(clientSent) + 1
       IN  /\ clientSent' = Append(clientSent, message)
           /\ audio_queue' = Append(audio_queue, message)
    /\ UNCHANGED <<mainpc, rcvpc, sttpc, sttEnd, stoppedAt, genpc, genEnd, client,
                   requests, upstream, delivered, cur, prompt, raw_text,
                   llm_response, tts_result, audio_bytes, outbound,
                   conversation_history, response, genVars, callVars>>

\* variant: the loop is not left after the sentinel was put
ReceiveDisconnectNoBreak ==
    /\ rcvpc = "recv"
    /\ client \in {"lost", "disconnected"}
    /\ client' = "disconnected"
    /\ audio_queue' = Append(audio_queue, None)
    /\ UNCHANGED <<mainpc, rcvpc, sttpc, sttEnd, stoppedAt, genpc, genEnd,
                   clientSent, requests, upstream, delivered, cur, prompt,
                   raw_text, llm_response, tts_result, audio_bytes, outbound,
                   conversation_history, response, genVars, callVars>>

\* receive_bytes raises WebSocketDisconnect: put the sentinel and break
ReceiveDisconnect ==
    /\ rcvpc = "recv"
    /\ client = "lost"
    /\ client' = "disconnected"
    /\ audio_queue' = Append(audio_queue, None)
    /\ rcvpc' = "done"
    /\ UNCHANGED <<mainpc, sttpc, sttEnd, stoppedAt, genpc, genEnd, clientSent,
                   requests, upstream, delivered, cur, prompt, raw_text,
                   llm_response, tts_result, audio_bytes, outbound,
                   conversation_history, response, genVars, callVars>>

\* receive_bytes raises anything else (a text frame, say): the task fails
ReceiveError ==
    /\ rcvpc = "recv"
    /\ client = "connected"
    /\ rcvpc' = "failed"
    /\ UNCHANGED <<mainpc, sttpc, sttEnd, stoppedAt, genpc, genEnd, client,
                   clientSent, audio_queue, requests, upstream, delivered, cur,
                   prompt, raw_text, llm_response, tts_result, audio_bytes,
                   outbound, conversation_history, response, genVars, callVars>>

\* ---- _request_generator, driven by the streaming call (stt 26-56) ----

\* variant: the feed goes straight to the queue without a configuration
GenStartsWithoutConfig ==
    /\ genpc = "start"
    /\ StreamAlive
    /\ genpc' = "pull"
    /\ UNCHANGED <<mainpc, rcvpc, sttpc, sttEnd, stoppedAt, genEnd, client,
                   clientSent, audio_queue, requests, upstream, delivered, cur,
                   prompt, raw_text, llm_response, tts_result, audio_bytes,
                   outbound, conversation_history, response, genVars, callVars>>

\* yield StreamingRecognizeRequest(streaming_config=streaming_config)
GenYieldConfig ==
    /\ genpc = "start"
    /\ StreamAlive
    /\ requests' = Append(requests, ConfigRequest)
    /\ genpc' = "pull"
    /\ UNCHANGED <<mainpc, rcvpc, sttpc, sttEnd, stoppedAt, genEnd, client,
                   clientSent, audio_queue, upstream, delivered, cur, prompt,
                   raw_text, llm_response, tts_result, audio_bytes, outbound,
                   conversation_history, response, genVars, callVars>>

\* variant: the chunk is read from the queue but left on it
GenPullPeek ==
    /\ genpc = "pull"
    /\ StreamAlive
    /\ audio_queue # <<>>
    /\ LET chunk == Head(audio_queue)
       IN  IF chunk = None
           THEN /\ audio_queue' = Tail(audio_queue)
                /\ genpc' = "done"
                /\ genEnd' = "sentinel"
                /\ UNCHANGED requests
           ELSE /\ requests' = Append(requests, AudioRequest(chunk))
                /\ UNCHANGED <<audio_queue, genpc, genEnd>>
    /\ UNCHANGED <<mainpc, rcvpc, sttpc, sttEnd, stoppedAt, client, clientSent,
                   upstream, delivered, cur, prompt, raw_text, llm_response,
                   tts_result, audio_bytes, outbound, conversation_history,
                   response, genVars, callVars>>

\* chunk = await self._audio_queue.get(); None ends the feed
GenPull ==
    /\ genpc = "pull"
    /\ StreamAlive
    /\ audio_queue # <<>>
    /\ LET chunk == Head(audio_queue)
       IN  /\ audio_queue' = Tail(audio_queue)
           /\ IF chunk = None
              THEN /\ genpc' = "done"
                   /\ genEnd' = "sentinel"
                   /\ UNCHANGED requests
              ELSE /\ requests' = Append(requests, AudioRequest(chunk))
                   /\ UNCHANGED <<genpc, genEnd>>
    /\ UNCHANGED <<mainpc, rcvpc, sttpc, sttEnd, stoppedAt, client, clientSent,
                   upstream, delivered, cur, prompt, raw_text, llm_response,
                   tts_result, audio_bytes, outbound, conversation_history,
                   response, genVars, callVars>>

\* the call is over: the generator is cancelled at its await (or never run)
GenCancelled ==
    /\ genpc \in {"start", "pull"}
    /\ sttpc \in {"done", "cancelled"}
    /\ genpc' = "done"
    /\ genEnd' = "cancelled"
    /\ UNCHANGED <<mainpc, rcvpc, sttpc, sttEnd, stoppedAt, client, clientSent,
                   audio_queue, requests, upstream, delivered, cur, prompt,
                   raw_text, llm_response, tts_result, audio_bytes, outbound,
                   conversation_history, response, genVars, callVars>>


\* ---- process_audio_stream and on_transcript_update ----

\* responses = await self._speech_client.streaming_recognize(...)
SttOpen ==
    /\ sttpc = "open"
    /\ sttpc' = "read"
    /\ UNCHANGED <<mainpc, rcvpc, sttEnd, stoppedAt, genpc, genEnd, client,
                   clientSent, audio_queue, requests, upstream, delivered, cur,
                   prompt, raw_text, llm_response, tts_result, audio_bytes,
                   outbound, conversation_history, response, genVars, callVars>>

\* variant: an exception of a send is swallowed inside the response loop,
\* which goes on to the next response
SttStopsUnlessSendFailed(how) ==
    /\ sttpc' = IF how = "send_error" THEN "read" ELSE "done"
    /\ sttEnd' = how
    /\ stoppedAt' = sttpc

\* the task leaves process_audio_stream through one of its except clauses
\* or by exhausting the responses; every exception is swallowed (88-93)
SttStops(how) ==
    /\ sttpc' = "done"
    /\ sttEnd' = how
    /\ stoppedAt' = sttpc

\* the upstream call raises at streaming_recognize or at the next response:
\* OutOfRange (silence), Cancelled, or any other exception
UpstreamFails ==
    /\ sttpc \in {"open", "read"}
    /\ \E how \in {"timeout", "upstream_cancelled", "error"} : SttStops(how)
    /\ UNCHANGED <<mainpc, rcvpc, genpc, genEnd, client, clientSent, audio_queue,
                   requests, upstream, delivered, cur, prompt, raw_text,
                   llm_response, tts_result, audio_bytes, outbound,
                   conversation_history, response, genVars, callVars>>

\* the response stream ends once the request stream has ended
UpstreamEnds ==
    /\ sttpc = "read"
    /\ genpc = "done"
    /\ SttStops("eof")
    /\ UNCHANGED <<mainpc, rcvpc, genpc, genEnd, client, clientSent, audio_queue,
                   requests, upstream, delivered, cur, prompt, raw_text,
                   llm_response, tts_result, audio_bytes, outbound,
                   conversation_history, response, genVars, callVars>>

\* async for response in responses: lines 71-83, up to the callback's
\* first await
SttRead ==
    /\ sttpc = "read"
    /\ upstream < MaxResponses
    /\ upstream' = upstream + 1
    /\ response' \in ResponseShapes
    /\ IF response' = <<>> \/ response'[1] = "noalt"
          THEN UNCHANGED <<sttpc, delivered, cur, prompt, raw_text,
                           llm_response, tts_result, audio_bytes>>
          ELSE LET transcript == <<upstream + 1, 1>>
                   is_final == (response'[1] = "final")
               IN  /\ cur' = [text |-> transcript, is_final |-> is_final]
                   /\ delivered' = Append(delivered, cur')
                   /\ sttpc' = "send_transcript"
                   /\ prompt' = <<>>
                   /\ raw_text' = NoValue
                   /\ llm_response' = Fallback
                   /\ tts_result' = NoValue
                   /\ audio_bytes' = NoValue
    /\ UNCHANGED <<mainpc, rcvpc, sttEnd, stoppedAt, genpc, genEnd, client,
                   clientSent, audio_queue, requests, outbound,
                   conversation_history, genVars, callVars>>

\* variant: only final transcripts are forwarded to the client
SendTranscriptFinalOnly ==
    /\ sttpc = "send_transcript"
    /\ outbound' = IF cur.is_final
                   THEN Append(outbound, TranscriptMsg(cur.text, cur.is_final))
                   ELSE outbound
    /\ sttpc' = IF cur.is_final THEN "generate" ELSE "read"
    /\ UNCHANGED <<mainpc, rcvpc, sttEnd, stoppedAt, genpc, genEnd, client,
                   clientSent, audio_queue, requests, upstream, delivered, cur,
                   prompt, raw_text, llm_response, tts_result, audio_bytes,
                   conversation_history, response, genVars, callVars>>

\* variant: the response flow is started for interim events as well
SendTranscriptAlwaysGenerates ==
    /\ sttpc = "send_transcript"
    /\ outbound' = Append(outbound, TranscriptMsg(cur.text, cur.is_final))
    /\ sttpc' = "generate"
    /\ UNCHANGED <<mainpc, rcvpc, sttEnd, stoppedAt, genpc, genEnd, client,
                   clientSent, audio_queue, requests, upstream, delivered, cur,
                   prompt, raw_text, llm_response, tts_result, audio_bytes,
                   conversation_history, response, genVars, callVars>>

\* await websocket.send_json({"type": "transcript", ...}) succeeds
SendTranscript ==
    /\ sttpc = "send_transcript"
    /\ outbound' = Append(outbound, TranscriptMsg(cur.text, cur.is_final))
    /\ sttpc' = IF cur.is_final THEN "generate" ELSE "read"
    /\ UNCHANGED <<mainpc, rcvpc, sttEnd, stoppedAt, genpc, genEnd, client,
                   clientSent, audio_queue, requests, upstream, delivered, cur,
                   prompt, raw_text, llm_response, tts_result, audio_bytes,
                   conversation_history, response, genVars, callVars>>

\* variant: a failed send is reported to the client with an error message
SendFailsReportsError ==
    /\ sttpc \in {"send_transcript", "send_audio"}
    /\ client # "connected"
    /\ SttStops("send_error")
    /\ outbound' = Append(outbound, [type |-> "error", data |-> [text |-> cur.text]])
    /\ UNCHANGED <<mainpc, rcvpc, genpc, genEnd, client, clientSent, audio_queue,
                   requests, upstream, delivered, cur, prompt, raw_text,
                   llm_response, tts_result, audio_bytes,
                   conversation_history, response, genVars, callVars>>

\* a send_json raises because the client is gone; the exception leaves the
\* callback and is swallowed by process_audio_stream
SendFails ==
    /\ sttpc \in {"send_transcript", "send_audio"}
    /\ client # "connected"
    /\ SttStops("send_error")
    /\ UNCHANGED <<mainpc, rcvpc, genpc, genEnd, client, clientSent, audio_queue,
                   requests, upstream, delivered, cur, prompt, raw_text,
                   llm_response, tts_result, audio_bytes, outbound,
                   conversation_history, response, genVars, callVars>>

\* variant: a backend exception is not caught inside generate_response
GenerateRaises ==
    /\ sttpc = "generate"
    /\ prompt' = _format_prompt_with_history(cur.text, conversation_history)
    /\ \E chat \in SessionChatOutcomes :
          /\ raw_text' = chat
          /\ llm_response' = generate_response(chat).resp
          /\ IF chat = Raised
             THEN SttStops("error")
             ELSE /\ sttpc' = "synthesize"
                  /\ UNCHANGED <<sttEnd, stoppedAt>>
    /\ llm_calls' = Append(llm_calls, [utterance |-> cur.text, prompt |-> prompt',
                                       response |-> llm_response'])
    /\ UNCHANGED <<mainpc, rcvpc, genpc, genEnd, client,
                   clientSent, audio_queue, requests, upstream, delivered, cur,
                   tts_result, audio_bytes, outbound, conversation_history,
                   response, genVars, tts_calls>>

\* llm_response = await llm_service.generate_response(transcript, history)
Generate ==
    /\ sttpc = "generate"
    /\ prompt' = _format_prompt_with_history(cur.text, conversation_history)
    /\ \E chat \in SessionChatOutcomes :
          /\ raw_text' = chat
          /\ llm_response' = generate_response(chat).resp
    /\ llm_calls' = Append(llm_calls, [utterance |-> cur.text, prompt |-> prompt',
                                       response |-> llm_response'])
    /\ sttpc' = "synthesize"
    /\ UNCHANGED <<mainpc, rcvpc, sttEnd, stoppedAt, genpc, genEnd, client,
                   clientSent, audio_queue, requests, upstream, delivered, cur,
                   tts_result, audio_bytes, outbound, conversation_history,
                   response, genVars, tts_calls>>

\* synthesize_speech: any backend exception becomes b'' (tts 52-55)
synthesize_speech(backend) == IF backend = Raised THEN <<>> ELSE backend

\* variant: the newest turn is put first
AppendTurnAtFront ==
    conversation_history' =
        <<ConversationTurn(cur.text, llm_response)>> \o conversation_history

AppendTurn ==
    conversation_history' =
        Append(conversation_history, ConversationTurn(cur.text, llm_response))

\* variant: the turn is appended right after synthesis, before the audio
\* message is sent
SynthesizeAppendsFirst ==
    /\ sttpc = "synthesize"
    /\ tts_calls' = Append(tts_calls, llm_response.customer_utterance)
    /\ \E backend \in SynthOutcomes :
          /\ tts_result' = backend
          /\ audio_bytes' = synthesize_speech(backend)
    /\ AppendTurn
    /\ sttpc' = IF audio_bytes' # <<>> THEN "send_audio" ELSE "read"
    /\ UNCHANGED <<mainpc, rcvpc, sttEnd, stoppedAt, genpc, genEnd, client,
                   clientSent, audio_queue, requests, upstream, delivered, cur,
                   prompt, raw_text, llm_response, outbound, response, genVars, llm_calls>>

\* variant: the audio message is sent whether or not there are bytes
SynthesizeAlwaysSend ==
    /\ sttpc = "synthesize"
    /\ tts_calls' = Append(tts_calls, llm_response.customer_utterance)
    /\ \E backend \in SynthOutcomes :
          /\ tts_result' = backend
          /\ audio_bytes' = synthesize_speech(backend)
    /\ sttpc' = "send_audio"
    /\ UNCHANGED <<mainpc, rcvpc, sttEnd, stoppedAt, genpc, genEnd, client,
                   clientSent, audio_queue, requests, upstream, delivered, cur,
                   prompt, raw_text, llm_response, outbound,
                   conversation_history, response, genVars, llm_calls>>

\* audio_bytes = await tts_service.synthesize_speech(...); with no audio
\* the callback runs on to the append without another await
Synthesize ==
    /\ sttpc = "synthesize"
    /\ tts_calls' = Append(tts_calls, llm_response.customer_utterance)
    /\ \E backend \in SynthOutcomes :
          /\ tts_result' = backend
          /\ audio_bytes' = synthesize_speech(backend)
    /\ IF audio_bytes' # <<>>
       THEN /\ sttpc' = "send_audio"
            /\ UNCHANGED conversation_history
       ELSE /\ AppendTurn
            /\ sttpc' = "read"
    /\ UNCHANGED <<mainpc, rcvpc, sttEnd, stoppedAt, genpc, genEnd, client,
                   clientSent, audio_queue, requests, upstream, delivered, cur,
                   prompt, raw_text, llm_response, outbound, response, genVars, llm_calls>>

\* await websocket.send_json({"type": "audio", ...}) succeeds, then append
SendAudio ==
    /\ sttpc = "send_audio"
    /\ outbound' = Append(outbound, AudioMsg(audio_bytes))
    /\ AppendTurn
    /\ sttpc' = "read"
    /\ UNCHANGED <<mainpc, rcvpc, sttEnd, stoppedAt, genpc, genEnd, client,
                   clientSent, audio_queue, requests, upstream, delivered, cur,
                   prompt, raw_text, llm_response, tts_result, audio_bytes,
                   response, genVars, callVars>>

\* ---- websocket_endpoint (main.py 99-115) ----

\* asyncio.gather returns when both tasks have returned
GatherReturns == sttpc = "done" /\ rcvpc = "done"

\* asyncio.gather raises as soon as a task has raised; process_audio_stream
\* swallows every exception, so only the receiver can
GatherRaises == rcvpc = "failed" \/ sttpc = "failed"

\* await asyncio.gather(stt_task, receiver_task) completes
GatherDone ==
    /\ mainpc = "gather"
    /\ GatherReturns \/ GatherRaises
    /\ mainpc' = "finally"
    /\ UNCHANGED <<rcvpc, sttpc, sttEnd, stoppedAt, genpc, genEnd, client,
                   clientSent, audio_queue, requests, upstream, delivered, cur,
                   prompt, raw_text, llm_response, tts_result, audio_bytes,
                   outbound, conversation_history, response, genVars, callVars>>

\* variant: a callback cancelled before its append still records its turn
CancelTasksAppendsPartial ==
    /\ mainpc = "finally"
    /\ mainpc' = "await_cancelled"
    /\ IF sttpc \in SttRunning
       THEN /\ sttpc' = "cancelled"
            /\ sttEnd' = "cancelled"
            /\ stoppedAt' = sttpc
       ELSE UNCHANGED <<sttpc, sttEnd, stoppedAt>>
    /\ IF sttpc \in {"generate", "synthesize", "send_audio"}
       THEN AppendTurn
       ELSE UNCHANGED conversation_history
    /\ rcvpc' = IF rcvpc = "recv" THEN "cancelled" ELSE rcvpc
    /\ UNCHANGED <<genpc, genEnd, client, clientSent, audio_queue, requests,
                   upstream, delivered, cur, prompt, raw_text, llm_response,
                   tts_result, audio_bytes, outbound, response, genVars, callVars>>

\* finally: stt_task.cancel(); receiver_task.cancel(): a task that is still
\* running is cancelled at the await it is suspended at
CancelTasks ==
    /\ mainpc = "finally"
    /\ mainpc' = "await_cancelled"
    /\ IF sttpc \in SttRunning
       THEN /\ sttpc' = "cancelled"
            /\ sttEnd' = "cancelled"
            /\ stoppedAt' = sttpc
       ELSE UNCHANGED <<sttpc, sttEnd, stoppedAt>>
    /\ rcvpc' = IF rcvpc = "recv" THEN "cancelled" ELSE rcvpc
    /\ UNCHANGED <<genpc, genEnd, client, clientSent, audio_queue, requests,
                   upstream, delivered, cur, prompt, raw_text, llm_response,
                   tts_result, audio_bytes, outbound, conversation_history,
                   response, genVars, callVars>>

\* variant: the second gather is skipped while a task was cancelled, and
\* the handler is left without the session being closed
CloseOnlyIfNothingCancelled ==
    /\ mainpc = "await_cancelled"
    /\ sttpc # "cancelled" /\ rcvpc # "cancelled"
    /\ mainpc' = "closed"
    /\ UNCHANGED <<rcvpc, sttpc, sttEnd, stoppedAt, genpc, genEnd, client,
                   clientSent, audio_queue, requests, upstream, delivered, cur,
                   prompt, raw_text, llm_response, tts_result, audio_bytes,
                   outbound, conversation_history, response, genVars, callVars>>

\* await asyncio.gather(..., return_exceptions=True) returns
Close ==
    /\ mainpc = "await_cancelled"
    /\ mainpc' = "closed"
    /\ UNCHANGED <<rcvpc, sttpc, sttEnd, stoppedAt, genpc, genEnd, client,
                   clientSent, audio_queue, requests, upstream, delivered, cur,
                   prompt, raw_text, llm_response, tts_result, audio_bytes,
                   outbound, conversation_history, response, genVars, callVars>>

Next ==
    \/ ClientDrop
    \/ ReceiveChunk
    \/ ReceiveDisconnect
    \/ ReceiveError
    \/ GenYieldConfig
    \/ GenPull
    \/ GenCancelled
    \/ SttOpen
    \/ UpstreamFails
    \/ UpstreamEnds
    \/ SttRead
    \/ SendTranscript
    \/ SendFails
    \/ Generate
    \/ Synthesize
    \/ SendAudio
    \/ GatherDone
    \/ CancelTasks
    \/ Close

Spec == Init /\ [][Next]_vars

\* a step of one of the session's coroutines: a receive on a lost
\* connection raises, a send completes one way or the other, and every
\* other await of the program completes
ProgramStep ==
    \/ ReceiveDisconnect
    \/ GenYieldConfig
    \/ GenPull
    \/ GenCancelled
    \/ SttOpen
    \/ SendTranscript
    \/ SendAudio
    \/ SendFails
    \/ Generate
    \/ Synthesize
    \/ GatherDone
    \/ CancelTasks
    \/ Close

\* The event loop keeps running the coroutines that can run.  The client
\* and the backends are free, except that the upstream ends its response
\* stream once its request stream has ended.
Fairness ==
    /\ WF_vars(ProgramStep)
    /\ WF_vars(UpstreamEnds)

FairSpec == Spec /\ Fairness


-----------------------------------------------------------------------------
(* Claims about the response generator (checked under SpecGen)             *)

AbnormalOutcomes ==
    {Raised, <<>>} \cup NoOpenBrace \cup NoCloseBrace
    \cup PlainWrapped(InvalidJsonObjects)
    \cup PlainWrapped(MissingFieldObjects)
    \cup PlainWrapped(BadEmotionObjects)

\* C3: generate_response always returns (it never raises), and for every
\* abnormal backend outcome - the call raises, empty output, no "{" or no
\* "}", invalid JSON, a missing required field, an emotion outside the
\* enum - what it returns is the fixed fallback (apology, "frustrated").
C3_FallbackOnAbnormal ==
    g_pc = "ret" =>
        /\ g_path \in {"parsed", "fallback"}
        /\ g_out.customer_emotion \in Emotion
        /\ g_in \in AbnormalOutcomes =>
              (g_path = "fallback" /\ g_out = Fallback)

C3_Witness ==
    /\ g_pc = "ret"
    /\ g_in = ValidObject(<<"hi">>, "angry")
    /\ g_out = Fallback

\* C4: for a backend output that is exactly a valid object
\* {customer_utterance: S, customer_emotion: E} with E one of the six
\* emotions, generate_response returns (S, E) through the parsing path.
C4_ValidReturnedUnchanged ==
    \A S \in Utterances, E \in Emotion :
        (g_pc = "ret" /\ g_in \in {ValidObject(S, E), ValidObjectRev(S, E)}) =>
            (g_path = "parsed" /\ g_out = LLMResponse(S, E))

C4_Witness ==
    /\ g_pc = "ret"
    /\ g_in = ValidObject(<<"a", RB>>, "impressed")
    /\ g_out = LLMResponse(<<"a", RB>>, "impressed")

RECURSIVE Depth(_, _, _)
Depth(s, i, k) ==
    IF k < i THEN 0
    ELSE Depth(s, i, k - 1)
         + (IF s[k] = LB THEN 1 ELSE IF s[k] = RB THEN -1 ELSE 0)

Balanced(s, i, j) ==
    /\ s[i] = LB
    /\ s[j] = RB
    /\ Depth(s, i, j) = 0
    /\ \A k \in i..(j - 1) : Depth(s, i, k) >= 1

BalancedSpans(s) ==
    {ij \in (1..Len(s)) \X (1..Len(s)) : ij[1] < ij[2] /\ Balanced(s, ij[1], ij[2])}

\* C5: when the input holds exactly one balanced {...} substring, with
\* arbitrary noise (stray braces included) before and after it,
\* _clean_json_string returns exactly that substring.
C5_ExtractsTheBalancedSubstring ==
    (g_pc = "cleaned" /\ g_in \in BraceStrings /\ Cardinality(BalancedSpans(g_in)) = 1) =>
        \E ij \in BalancedSpans(g_in) : g_cleaned = SubSeq(g_in, ij[1], ij[2])


-----------------------------------------------------------------------------
(* Claims about the session (checked under Spec)                           *)

IsTranscript(m) == m.type = "transcript"

IsAudio(m) == m.type = "audio"

IsFinal(e) == e.is_final

\* the (text, is_final) pairs of the transcript messages sent, in order
SentEvents ==
    LET T == SelectSeq(outbound, IsTranscript)
    IN  [i \in 1..Len(T) |-> [text |-> T[i].data.text, is_final |-> T[i].data.is_final]]

FinalTexts ==
    LET F == SelectSeq(delivered, IsFinal)
    IN  [i \in 1..Len(F) |-> F[i].text]

HistoryUtterances ==
    [i \in 1..Len(conversation_history) |-> conversation_history[i].user_utterance]

InCallback == {"send_transcript", "generate", "synthesize", "send_audio"}

\* C1: the transcript messages sent are the events handed to the callback,
\* one message per event with text and is_final unchanged, in the order of
\* the events; an event lacks its message only while its send is pending,
\* or when that send did not go through (it raised, or teardown cancelled
\* the task at it), so with the send path open every event has its message.
C1_OneTranscriptPerEventInOrder ==
    /\ Len(SentEvents) <= Len(delivered)
    /\ SentEvents = SubSeq(delivered, 1, Len(SentEvents))
    /\ Len(SentEvents) < Len(delivered) =>
          /\ Len(SentEvents) = Len(delivered) - 1
          /\ \/ sttpc = "send_transcript"
             \/ stoppedAt = "send_transcript" /\ sttEnd \in {"send_error", "cancelled"}

C1_Witness ==
    /\ Len(delivered) = 2
    /\ SentEvents = delivered
    /\ ~delivered[1].is_final
    /\ delivered[2].is_final
    /\ sttEnd = "none"

C2_Inv ==
    /\ Len(conversation_history) <= Len(FinalTexts)
    /\ HistoryUtterances = SubSeq(FinalTexts, 1, Len(conversation_history))
    /\ Len(conversation_history) < Len(FinalTexts) =>
          /\ Len(conversation_history) = Len(FinalTexts) - 1
          /\ cur = delivered[Len(delivered)]
          /\ cur.is_final
          /\ sttpc \in InCallback \/ stoppedAt \in InCallback

C2_Step ==
    \/ conversation_history' = conversation_history
    \/ /\ Len(conversation_history') = Len(conversation_history) + 1
       /\ SubSeq(conversation_history', 1, Len(conversation_history)) = conversation_history

\* C2: history is the turns of the final transcripts whose processing
\* completed, in arrival order: its utterances are the first texts of the
\* final events handed to the callback, only the final event still being
\* processed (or abandoned) may be missing, and every step either leaves
\* history alone or appends one turn at its end.
C2_HistoryFollowsFinals == []C2_Inv /\ [][C2_Step]_vars

C2_Witness ==
    /\ Len(conversation_history) = 2
    /\ HistoryUtterances = <<<<1, 1>>, <<2, 1>>>>

PulledChunks ==
    [i \in 1..(Len(requests) - 1) |-> requests[i + 1].audio_content]

\* everything ever put on the audio queue, in put order
AllPut ==
    PulledChunks \o (IF genEnd = "sentinel" THEN <<None>> ELSE <<>>) \o audio_queue

C7_NoAudioStillAppends ==
    (tts_result = Raised \/ tts_result = <<>>) =>
        /\ audio_bytes = <<>>
        /\ outbound # <<>>
        /\ IsTranscript(outbound[Len(outbound)])
        /\ outbound[Len(outbound)] = TranscriptMsg(cur.text, TRUE)
        /\ conversation_history # <<>>
        /\ conversation_history[Len(conversation_history)]
              = ConversationTurn(cur.text, llm_response)

C7_Witness ==
    /\ tts_result = Raised
    /\ audio_bytes = <<>>
    /\ Len(conversation_history) = 1
    /\ Len(SelectSeq(outbound, IsAudio)) = 0

\* C8: the session starts draining as soon as either task has ended; in
\* particular once the consumption task has ended while the client is
\* still connected, the wait of websocket_endpoint is over.
C8_DrainWhenConsumptionEnds ==
    (mainpc = "gather" /\ sttpc = "done" /\ client = "connected") =>
        (GatherReturns \/ GatherRaises)

\* C9: an unexpected failure in the consumption task (an upstream error
\* other than timeout or cancellation, or a failed send in the callback)
\* reaches websocket_endpoint as an error that ends its wait.
C9_UnexpectedFailureSurfaces ==
    (mainpc = "gather" /\ sttEnd \in {"error", "send_error"}) => GatherRaises

C10_Inv ==
    sttpc = "done" => stoppedAt \in {"open", "read", "send_transcript", "send_audio"}

C10_Step ==
    /\ (sttpc = "generate" /\ raw_text' = Raised) =>
          /\ sttpc' = "synthesize"
          /\ llm_response' = Fallback
          /\ sttEnd' = "none"
          /\ mainpc' = mainpc
    /\ (sttpc = "synthesize" /\ tts_result' = Raised) =>
          /\ sttpc' = "read"
          /\ sttEnd' = "none"
          /\ mainpc' = mainpc
          /\ conversation_history'
                = Append(conversation_history, ConversationTurn(cur.text, llm_response))

\* C10: a generation or synthesis backend failure does not end the
\* session: the task goes on to the next step, the turn is appended (with
\* the fallback response when generation failed), the task returns to
\* reading events, and it never stops at the generate or synthesize step.
C10_BackendFailureKeepsSession == []C10_Inv /\ [][C10_Step]_vars

C10_Witness ==
    /\ Len(conversation_history) = 2
    /\ conversation_history[1].ai_response = Fallback
    /\ conversation_history[2].ai_response # Fallback
    /\ Len(SentEvents) = 2


Puts == clientSent \o (IF rcvpc = "done" THEN <<None>> ELSE <<>>)

Consumed == Len(PulledChunks) + (IF genEnd = "sentinel" THEN 1 ELSE 0)

TornDown == mainpc \in {"await_cancelled", "closed"}

C11_Inv ==
    /\ Len(conversation_history) <= Len(llm_calls)
    /\ \A i \in 1..Len(conversation_history) :
          conversation_history[i]
             = ConversationTurn(llm_calls[i].utterance, llm_calls[i].response)
    /\ TornDown =>
          /\ Consumed <= Len(Puts)
          /\ audio_queue = SubSeq(Puts, Consumed + 1, Len(Puts))

C11_Step ==
    TornDown =>
        /\ conversation_history' = conversation_history
        /\ audio_queue' = audio_queue
        /\ outbound' = outbound
        /\ llm_calls' = llm_calls

\* C11: cancelling the tasks, whatever await they are at, leaves the state
\* intact: every turn in history is a complete one, holding the result of
\* the generate call made for its utterance; once the tasks are cancelled
\* no turn is appended; and the audio queue holds exactly the chunks not
\* yet consumed, in arrival order.
C11_CancellationKeepsState == []C11_Inv /\ [][C11_Step]_vars

C11_Witness ==
    /\ sttpc = "cancelled"
    /\ stoppedAt = "send_audio"
    /\ Len(conversation_history) = 1
    /\ Len(llm_calls) = 2
    /\ audio_queue = <<2>>


NumAudio == Len(SelectSeq(outbound, IsAudio))

C12_Inv ==
    /\ Len(conversation_history) <= Len(tts_calls)
    /\ Len(tts_calls) <= Len(llm_calls)
    /\ Len(llm_calls) <= Len(FinalTexts)
    /\ Len(FinalTexts) <= Len(conversation_history) + 1
    /\ NumAudio <= Len(tts_calls)
    /\ sttpc = "send_transcript" =>
          /\ Len(llm_calls) = Len(conversation_history)
          /\ Len(tts_calls) = Len(conversation_history)

C12_Step ==
    \* a new event is taken up only when every earlier final has its turn
    /\ delivered' # delivered =>
          /\ Len(conversation_history) = Len(FinalTexts)
          /\ Len(llm_calls) = Len(conversation_history)
          /\ Len(tts_calls) = Len(conversation_history)
    \* generate comes first, for the final event just sent to the client
    /\ llm_calls' # llm_calls =>
          /\ Len(llm_calls) = Len(conversation_history)
          /\ Len(tts_calls) = Len(conversation_history)
          /\ Len(FinalTexts) = Len(llm_calls) + 1
          /\ llm_calls'[Len(llm_calls')].utterance = FinalTexts[Len(FinalTexts)]
    \* synthesize follows the generate of the same turn, with its utterance
    /\ tts_calls' # tts_calls =>
          /\ Len(llm_calls) = Len(tts_calls) + 1
          /\ tts_calls'[Len(tts_calls')]
                = llm_calls[Len(llm_calls)].response.customer_utterance
    \* the audio message follows the synthesize of the turn, before its append
    /\ NumAudio' # NumAudio =>
          /\ Len(tts_calls) = Len(conversation_history) + 1
          /\ NumAudio' = NumAudio + 1
    \* the append is last
    /\ conversation_history' # conversation_history =>
          /\ Len(tts_calls') = Len(conversation_history')
          /\ Len(llm_calls') = Len(conversation_history')

\* C12: the work for an utterance is sequential and utterances are not
\* pipelined: at most one generate/synthesize is outstanding, each final
\* event goes through generate, synthesize, (audio send), append in that
\* order, and the next event is taken up only after the turn of the
\* previous final event was appended.
C12_SequentialPerUtterance == []C12_Inv /\ [][C12_Step]_vars

C12_Witness ==
    /\ Len(conversation_history) = 2
    /\ Len(llm_calls) = 2
    /\ Len(tts_calls) = 2
    /\ NumAudio = 1


\* the results of the response just read that carry an alternative
WithAlternative == {j \in 1..Len(response) : response[j] # "noalt"}

EventsOfResponse == {i \in 1..Len(delivered) : delivered[i].text[1] = upstream}

\* C13: every upstream result with at least one alternative yields exactly
\* one transcript event, also when a response carries several results or
\* when its first result has no alternative and a later one has; only
\* results without alternatives are dropped.
C13_OneEventPerResultWithAlternative ==
    /\ \A j \in WithAlternative :
          \E i \in EventsOfResponse :
              delivered[i] = [text |-> <<upstream, j>>, is_final |-> response[j] = "final"]
    /\ Cardinality(EventsOfResponse) = Cardinality(WithAlternative)


IsChunk(x) == x # None

QueuedChunks == SelectSeq(audio_queue, IsChunk)

SttTerminated == sttpc \in {"done", "cancelled"}

ReceiverTerminated == rcvpc \in {"done", "failed", "cancelled"}

C15_Inv ==
    TornDown => (SttTerminated /\ ReceiverTerminated)

C15_Step ==
    mainpc = "closed" =>
        /\ mainpc' = "closed"
        /\ sttpc' = sttpc
        /\ rcvpc' = rcvpc
        /\ outbound' = outbound
        /\ conversation_history' = conversation_history
        /\ audio_queue' = audio_queue

\* C15: once draining has started both tasks are cancelled and awaited and
\* the session reaches Closed with both tasks terminated; Closed is final:
\* no task runs, nothing is sent and no turn is appended after it; and
\* once the client is gone the session reaches Closed, given that the
\* upstream ends its responses once its requests have ended.
C15_DrainingReachesClosed ==
    /\ []C15_Inv
    /\ [][C15_Step]_vars
    /\ (mainpc = "finally" \/ client # "connected") ~> (mainpc = "closed")

C15_Witness ==
    /\ mainpc = "closed"
    /\ sttEnd = "eof"
    /\ genEnd = "sentinel"
    /\ rcvpc = "done"
    /\ Len(conversation_history) = 1


\* the lines of the prompt of generate call i that render earlier turns
HistoryLines(i) == SubSeq(llm_calls[i].prompt, 1, Len(llm_calls[i].prompt) - 1)

\* the history that generate call i was given, read back from its prompt
HistoryOfCall(i) ==
    LET lines == HistoryLines(i)
    IN  [j \in 1..(Len(lines) \div 2) |->
            ConversationTurn(lines[2 * j - 1].trainee, lines[2 * j].customer)]

WellFormedPrompt(i) ==
    LET p == llm_calls[i].prompt
    IN  /\ Len(p) = 2 * (i - 1) + 1
        /\ p[Len(p)] = [trainee |-> llm_calls[i].utterance]
        /\ \A j \in 1..(i - 1) :
              /\ DOMAIN p[2 * j - 1] = {"trainee"}
              /\ DOMAIN p[2 * j] = {"customer"}

C16_Inv ==
    /\ \A i \in 1..Len(llm_calls) :
          /\ WellFormedPrompt(i)
          /\ llm_calls[i].utterance = FinalTexts[i]
          /\ Len(conversation_history) >= i - 1
          /\ HistoryOfCall(i) = SubSeq(conversation_history, 1, i - 1)
    /\ \A i \in 1..Len(conversation_history) :
          conversation_history[i] =
              ConversationTurn(llm_calls[i].utterance, llm_calls[i].response)
    /\ sttpc \in {"synthesize", "send_audio"} =>
          /\ Len(conversation_history) = Len(llm_calls) - 1
          /\ HistoryOfCall(Len(llm_calls)) = conversation_history
    /\ sttpc = "generate" => Len(conversation_history) = Len(llm_calls)

C16_Step ==
    /\ \/ conversation_history' = conversation_history
       \/ /\ sttpc \in {"synthesize", "send_audio"}
          /\ sttpc' = "read"
          /\ conversation_history' =
                 Append(conversation_history, ConversationTurn(cur.text, llm_response))
    /\ (sttpc = "generate" \/ sttpc' \in {"synthesize", "send_audio"}) =>
          conversation_history' = conversation_history
    /\ (rcvpc' # rcvpc \/ clientSent' # clientSent \/ audio_queue' # audio_queue) =>
          conversation_history' = conversation_history

\* C16: the history given to generate_response for a final transcript is
\* exactly the turns appended before that transcript's processing began, in
\* the order they were appended; history does not change between the start
\* of that call and the append of that turn; only the consumption task
\* appends, and no step of the ingestion task changes history.
C16_GenerateSeesEarlierTurns == []C16_Inv /\ [][C16_Step]_vars

C16_Witness ==
    /\ Len(llm_calls) = 2
    /\ Len(llm_calls[2].prompt) = 3
    /\ HistoryOfCall(2) = <<conversation_history[1]>>
    /\ Len(conversation_history) = 2
    /\ llm_calls[1].response # llm_calls[2].response


\* the generation-backend calls made for the event with this transcript
LlmCallsFor(text) == {i \in 1..Len(llm_calls) : llm_calls[i].utterance = text}

InterimTexts == {delivered[i].text : i \in {j \in 1..Len(delivered) : ~delivered[j].is_final}}

C17_Inv ==
    /\ \A i \in 1..Len(FinalTexts) : Cardinality(LlmCallsFor(FinalTexts[i])) <= 1
    /\ \A text \in InterimTexts : LlmCallsFor(text) = {}
    /\ \A i \in 1..Len(llm_calls) : llm_calls[i].utterance = FinalTexts[i]
    /\ Len(tts_calls) <= Len(llm_calls)
    /\ \A i \in 1..Len(tts_calls) :
          tts_calls[i] = llm_calls[i].response.customer_utterance
    /\ NumAudio <= Len(FinalTexts)
    /\ Len(conversation_history) <= Len(FinalTexts)
    /\ \A i \in 1..Len(conversation_history) :
          conversation_history[i].user_utterance \notin InterimTexts

C17_Step ==
    /\ (sttpc \in InCallback /\ ~cur.is_final) =>
          /\ sttpc' \notin {"generate", "synthesize", "send_audio"}
          /\ llm_calls' = llm_calls
          /\ tts_calls' = tts_calls
          /\ NumAudio' = NumAudio
          /\ conversation_history' = conversation_history
    /\ llm_calls' # llm_calls =>
          /\ cur.is_final
          /\ Len(llm_calls') = Len(llm_calls) + 1
          /\ sttpc' = "synthesize"
    /\ tts_calls' # tts_calls =>
          /\ cur.is_final
          /\ Len(tts_calls') = Len(tts_calls) + 1
          /\ sttpc' \in {"send_audio", "read"}

\* C17: backend calls are made for final events only and are not retried:
\* an interim event causes no generate call, no synthesize call, no audio
\* message and no history append; a final event causes at most one call of
\* the generation backend and at most one of the synthesis backend, also
\* when the call fails.
C17_CallsOnlyForFinalsOnce == []C17_Inv /\ [][C17_Step]_vars

C17_Witness ==
    /\ Len(delivered) = 2
    /\ ~delivered[1].is_final
    /\ delivered[2].is_final
    /\ Len(llm_calls) = 1
    /\ Len(tts_calls) = 1
    /\ raw_text = Raised
    /\ tts_result = Raised
    /\ sttpc = "read"


ConfigFrames == {i \in 1..Len(requests) : requests[i].kind = "config"}

AudioFrames == {i \in 1..Len(requests) : requests[i].kind = "audio"}

C18_Inv ==
    /\ requests # <<>> =>
          /\ requests[1] = ConfigRequest
          /\ ConfigFrames = {1}
          /\ AudioFrames = 2..Len(requests)
    \* nothing has been taken off the queue while no frame has been sent
    /\ requests = <<>> =>
          /\ genEnd # "sentinel"
          /\ audio_queue = Puts
    /\ genpc = "start" => requests = <<>>
    /\ genpc = "pull" => requests # <<>>

C18_Step ==
    /\ requests' # requests =>
          /\ \E frame \in {ConfigRequest} \cup {AudioRequest(c) : c \in 1..(MaxChunks + 1)} :
                requests' = Append(requests, frame)
          /\ (requests'[Len(requests')].kind = "config") <=> (requests = <<>>)
    \* a pull from the queue comes after the configuration frame
    /\ Len(audio_queue') < Len(audio_queue) => requests # <<>>

IsFinalTranscript(m) == IsTranscript(m) /\ m.data.is_final

\* the final transcript messages sent so far
SentFinals == SelectSeq(outbound, IsFinalTranscript)

\* the number of final transcript messages among the first i messages
SentFinalsUpTo(i) == Len(SelectSeq(SubSeq(outbound, 1, i), IsFinalTranscript))

C19_Inv ==
    /\ \A i \in 1..Len(outbound) :
          /\ outbound[i].type \in {"transcript", "audio"}
          /\ IsAudio(outbound[i]) =>
                /\ i > 1
                /\ IsFinalTranscript(outbound[i - 1])
                \* the audio is that of the turn of this final transcript
                /\ LET k == SentFinalsUpTo(i - 1)
                   IN  /\ k <= Len(conversation_history)
                       /\ conversation_history[k].user_utterance
                              = outbound[i - 1].data.text
                       /\ k <= Len(tts_calls)
                       /\ tts_calls[k]
                              = conversation_history[k].ai_response.customer_utterance
    /\ NumAudio <= Len(SentFinals)
    /\ Len(conversation_history) <= Len(SentFinals)

C19_Step ==
    NumAudio' # NumAudio =>
        /\ outbound' = Append(outbound, AudioMsg(audio_bytes))
        /\ audio_bytes # <<>>
        /\ IsFinalTranscript(outbound[Len(outbound)])
        /\ outbound[Len(outbound)].data.text = cur.text

\* C19: in the outbound stream every audio message comes directly after
\* the final transcript message of its own turn, so the audio messages
\* sent and the turns in history are each at most as many as the final
\* transcript messages sent; the only message types sent are transcript
\* and audio, and no error message is sent.
C19_AudioFollowsItsFinalTranscript == []C19_Inv /\ [][C19_Step]_vars

C19_Witness ==
    /\ Len(outbound) = 3
    /\ IsFinalTranscript(outbound[1])
    /\ IsAudio(outbound[2])
    /\ IsFinalTranscript(outbound[3])
    /\ sttEnd = "send_error"
    /\ stoppedAt = "send_audio"
    /\ Len(conversation_history) = 1


\* the message that reports this final event to the client was sent
TranscriptSent(text) ==
    \E i \in 1..Len(outbound) : outbound[i] = TranscriptMsg(text, TRUE)

SendFailed == sttEnd = "send_error"

C20_Inv ==
    \* every turn in history had its transcript message sent
    /\ \A i \in 1..Len(conversation_history) :
          TranscriptSent(conversation_history[i].user_utterance)
    \* after a failed send the task is over and the event has no turn
    /\ SendFailed =>
          /\ sttpc \in {"done", "cancelled"}
          /\ stoppedAt \in {"send_transcript", "send_audio"}
          /\ delivered # <<>>
          /\ \A i \in 1..Len(conversation_history) :
                conversation_history[i].user_utterance # delivered[Len(delivered)].text
          /\ Len(conversation_history)
                = Len(FinalTexts) - (IF delivered[Len(delivered)].is_final THEN 1 ELSE 0)

C20_Step ==
    \* the append comes after the sends of the turn have gone through
    /\ conversation_history' # conversation_history =>
          /\ TranscriptSent(cur.text)
          /\ audio_bytes' # <<>> =>
                /\ outbound' = Append(outbound, AudioMsg(audio_bytes'))
                /\ outbound[Len(outbound)] = TranscriptMsg(cur.text, TRUE)
          /\ audio_bytes' = <<>> => outbound' = outbound
    \* a failing send appends nothing and sends nothing
    /\ (~SendFailed /\ SendFailed') =>
          /\ conversation_history' = conversation_history
          /\ outbound' = outbound
    \* and after it no further event is processed
    /\ SendFailed =>
          /\ SendFailed'
          /\ delivered' = delivered
          /\ upstream' = upstream
          /\ outbound' = outbound
          /\ conversation_history' = conversation_history
          /\ llm_calls' = llm_calls
          /\ tts_calls' = tts_calls

\* C20: a turn is appended only after every send for its final event has
\* gone through; when the transcript send or the audio send fails, no turn
\* is appended for that utterance, history stays as it was, and the
\* consumption task processes no further transcript event.
C20_AppendOnlyAfterSends == []C20_Inv /\ [][C20_Step]_vars

C20_Witness ==
    /\ SendFailed
    /\ stoppedAt = "send_audio"
    /\ Len(llm_calls) = 1
    /\ Len(tts_calls) = 1
    /\ audio_bytes # <<>>
    /\ conversation_history = <<>>
    /\ upstream < MaxResponses
    /\ mainpc = "closed"


=============================================================================
